---------------------------- MODULE Spec2Model ----------------------------
(***************************************************************************)
(* Zone processing of WiNTown (src/zone.c): the population estimators and  *)
(* their caches, the per-tile entry point DoZone with its category         *)
(* handlers, the growth and decline handlers and the 3x3 stamper ZonePlop. *)
(*                                                                         *)
(* A tile is the 16-bit pattern the C code keeps in Map[y][x]: the low 10  *)
(* bits are the tile code, the high bits are flags.                        *)
(***************************************************************************)
EXTENDS Integers, Sequences, FiniteSets, TLC

(***************************************************************************)
(* Size of the modelled world. The game's grid is 120 x 100; the model     *)
(* keeps the code's bounds checks and runs them on a small grid.           *)
(***************************************************************************)
WORLD_X == 5
WORLD_Y == 2
\* Visits the driver makes.
MaxVisits == 2

(***************************************************************************)
(* Tile codes and flag bits (sim.h / tiles.h; zone.c names RZB, CZB, IZB   *)
(* in its header comment and defines HOSPITALBASE, FOOTBALLBASE,           *)
(* POP_CACHE_SIZE itself).                                                 *)
(***************************************************************************)
LOMASK == 1023
ZONEBIT == 1024
BULLBIT == 4096
BURNBIT == 8192
CONDBIT == 16384
POWERBIT == 32768
BNCNBIT == BURNBIT + CONDBIT

DIRT == 0
RUBBLE == 44
ROADS == 64
LASTRAIL == 238
RESBASE == 240
FREEZ == 244
RZB == 265
HOSPITAL == 409
CHURCH == 418
COMBASE == 423
COMCLR == 427
CZB == 436
INDBASE == 612
INDCLR == 616
IZB == 625
PORTBASE == 693
PORT == 698
AIRPORT == 716
POWERPLANT == 750
FIRESTATION == 765
POLICESTATION == 774
STADIUM == 784
NUCLEAR == 816
LASTZONE == 826
BSIZE == 8

HOSPITALBASE == 400
FOOTBALLBASE == 950
POP_CACHE_SIZE == 512

(***************************************************************************)
(* C integer arithmetic: / truncates toward zero, % takes the sign of the  *)
(* dividend, >> on the non-negative values the code shifts.                *)
(***************************************************************************)
CDiv(a, b) == IF a >= 0 THEN a \div b ELSE -((-a) \div b)
CMod(a, b) == a - b * CDiv(a, b)
Shr(a, n) == a \div (2 ^ n)

\* Bit b (a power of two) of the 16-bit pattern t.
HasBit(t, b) == (t \div b) % 2 = 1
RECURSIVE OrFrom(_, _, _)
OrFrom(a, b, bit) ==
    IF bit > POWERBIT THEN 0
    ELSE (IF HasBit(a, bit) \/ HasBit(b, bit) THEN bit ELSE 0) + OrFrom(a, b, 2 * bit)
\* a | b on 16-bit patterns.
BitOr(a, b) == OrFrom(a, b, 1)
\* t & LOMASK and t & ~LOMASK.
Code(t) == t % (LOMASK + 1)
Flags(t) == t - Code(t)

BOUNDS_CHECK(x, y) == x >= 0 /\ x < WORLD_X /\ y >= 0 /\ y < WORLD_Y


(***************************************************************************)
(* Program state. Map and the census totals ResPop, ComPop, IndPop,        *)
(* NuclearPop, the influence grids PoliceMap, FireStMap and the position   *)
(* SMapX, SMapY are globals of sim.h that zone.c writes; RZPop, CZPop,     *)
(* IZPop and the three caches are zone.c's statics. CityTime, the coarse   *)
(* grids LandValueMem, PollutionMem, PopDensity, ComRate and the base      *)
(* effects PoliceEffect, FireEffect are globals zone.c only reads.         *)
(* call and pre are history variables: the last call with the handlers it  *)
(* entered, and the program state that call started from.                  *)
(***************************************************************************)
VARIABLES Map, RZPop, CZPop, IZPop, ResPop, ComPop, IndPop, NuclearPop,
          PoliceMap, FireStMap, SMapX, SMapY,
          resPopCache, comPopCache, indPopCache, cacheInitialized,
          CityTime, LandValueMem, PollutionMem, PopDensity, ComRate,
          PoliceEffect, FireEffect,
          visits, call, pre

progVars == <<Map, RZPop, CZPop, IZPop, ResPop, ComPop, IndPop, NuclearPop,
              PoliceMap, FireStMap, SMapX, SMapY,
              resPopCache, comPopCache, indPopCache, cacheInitialized>>
envVars == <<CityTime, LandValueMem, PollutionMem, PopDensity, ComRate,
             PoliceEffect, FireEffect>>
vars == <<progVars, envVars, visits, call, pre>>

\* The program state as one value, threaded through the handlers below;
\* trace lists the handlers entered, ret is the last return value.
State == [Map |-> Map, RZPop |-> RZPop, CZPop |-> CZPop, IZPop |-> IZPop,
          ResPop |-> ResPop, ComPop |-> ComPop, IndPop |-> IndPop,
          NuclearPop |-> NuclearPop, PoliceMap |-> PoliceMap,
          FireStMap |-> FireStMap, SMapX |-> SMapX, SMapY |-> SMapY,
          resPopCache |-> resPopCache, comPopCache |-> comPopCache,
          indPopCache |-> indPopCache, cacheInitialized |-> cacheInitialized,
          trace |-> << >>, ret |-> 0]

\* What the history variable pre keeps of a program state.
Snapshot(s) == [Map |-> s.Map, RZPop |-> s.RZPop, CZPop |-> s.CZPop,
                IZPop |-> s.IZPop, ResPop |-> s.ResPop, ComPop |-> s.ComPop,
                IndPop |-> s.IndPop, NuclearPop |-> s.NuclearPop,
                PoliceMap |-> s.PoliceMap, FireStMap |-> s.FireStMap,
                SMapX |-> s.SMapX, SMapY |-> s.SMapY,
                resPopCache |-> s.resPopCache, comPopCache |-> s.comPopCache,
                indPopCache |-> s.indPopCache,
                cacheInitialized |-> s.cacheInitialized]

Ret(s, v) == [s EXCEPT !.ret = v]
\* A cache is a zero-initialised static array of POP_CACHE_SIZE shorts; the
\* model keeps the entries written so far, the others read as 0.
CacheRead(cache, index) == IF index \in DOMAIN cache THEN cache[index] ELSE 0
CacheWrite(cache, index, v) ==
    [i \in DOMAIN cache \cup {index} |-> IF i = index THEN v ELSE cache[i]]
Ev(h, a, b) == [h |-> h, a |-> a, b |-> b]
Log(s, h, a, b) == [s EXCEPT !.trace = Append(@, Ev(h, a, b))]
\* Whether the call entered handler h.
Entered(tr, h) == \E i \in 1..Len(tr) : tr[i].h = h

(***************************************************************************)
(* Population estimators with their caches.                                *)
(* A cache access is kept in the trace: the event names the cache, a is    *)
(* the index, b is 0 for a read and 1 for a write.                         *)
(***************************************************************************)
\* calcResPop writing its cache without the test against POP_CACHE_SIZE.
calcResPop_NoSizeTest(s, zone) ==
    LET index == zone - RESBASE
        CzDen == CMod(CDiv(zone - RZB, 9), 4)
        result == (CzDen * 8) + 16
        cached == index >= 0 /\ index < POP_CACHE_SIZE /\ s.cacheInitialized # 0
        sr == IF cached THEN Log(s, "resPopCache", index, 0) ELSE s
    IN  IF zone < RESBASE \/ zone > LASTZONE THEN Ret(s, 0)
        ELSE IF cached /\ CacheRead(s.resPopCache, index) # 0
             THEN Ret(sr, CacheRead(s.resPopCache, index))
        ELSE IF zone < RZB \/ zone - RZB > 32767 THEN Ret(sr, 0)
        ELSE IF result < 0 \/ result > 1000 THEN Ret(sr, 0)
        ELSE IF index >= 0
             THEN [Log(sr, "resPopCache", index, 1) EXCEPT
                      !.resPopCache = CacheWrite(@, index, result),
                      !.cacheInitialized = 1, !.ret = result]
        ELSE Ret(sr, result)

calcResPop(s, zone) ==
    LET index == zone - RESBASE
        CzDen == CMod(CDiv(zone - RZB, 9), 4)
        result == (CzDen * 8) + 16
        cached == index >= 0 /\ index < POP_CACHE_SIZE /\ s.cacheInitialized # 0
        sr == IF cached THEN Log(s, "resPopCache", index, 0) ELSE s
    IN  IF zone < RESBASE \/ zone > LASTZONE THEN Ret(s, 0)
        ELSE IF cached /\ CacheRead(s.resPopCache, index) # 0
             THEN Ret(sr, CacheRead(s.resPopCache, index))
        ELSE IF zone < RZB \/ zone - RZB > 32767 THEN Ret(sr, 0)
        ELSE IF result < 0 \/ result > 1000 THEN Ret(sr, 0)
        ELSE IF index >= 0 /\ index < POP_CACHE_SIZE
             THEN [Log(sr, "resPopCache", index, 1) EXCEPT
                      !.resPopCache = CacheWrite(@, index, result),
                      !.cacheInitialized = 1, !.ret = result]
        ELSE Ret(sr, result)

\* calcComPop keeping its results in the residential cache.
calcComPop_SharedCache(s, zone) ==
    LET index == zone - RESBASE
        CzDen == CMod(CDiv(zone - COMBASE, 9), 5) + 1
        result == CzDen
    IN  IF zone < COMBASE \/ zone > LASTZONE THEN Ret(s, 0)
        ELSE IF zone = COMCLR THEN Ret(s, 0)
        ELSE IF index >= 0 /\ index < POP_CACHE_SIZE /\ s.cacheInitialized # 0
                /\ CacheRead(s.resPopCache, index) # 0
             THEN Ret(s, CacheRead(s.resPopCache, index))
        ELSE IF zone - COMBASE > 32767 THEN Ret(s, 0)
        ELSE IF result < 0 \/ result > 100 THEN Ret(s, 0)
        ELSE IF index >= 0 /\ index < POP_CACHE_SIZE
             THEN [s EXCEPT !.resPopCache = CacheWrite(@, index, result), !.ret = result]
        ELSE Ret(s, result)

calcComPop(s, zone) ==
    LET index == zone - RESBASE
        CzDen == CMod(CDiv(zone - COMBASE, 9), 5) + 1
        result == CzDen
        cached == index >= 0 /\ index < POP_CACHE_SIZE /\ s.cacheInitialized # 0
        sr == IF cached THEN Log(s, "comPopCache", index, 0) ELSE s
    IN  IF zone < COMBASE \/ zone > LASTZONE THEN Ret(s, 0)
        ELSE IF zone = COMCLR THEN Ret(s, 0)
        ELSE IF cached /\ CacheRead(s.comPopCache, index) # 0
             THEN Ret(sr, CacheRead(s.comPopCache, index))
        ELSE IF zone - COMBASE > 32767 THEN Ret(sr, 0)
        ELSE IF result < 0 \/ result > 100 THEN Ret(sr, 0)
        ELSE IF index >= 0 /\ index < POP_CACHE_SIZE
             THEN [Log(sr, "comPopCache", index, 1) EXCEPT
                      !.comPopCache = CacheWrite(@, index, result), !.ret = result]
        ELSE Ret(sr, result)

calcIndPop(s, zone) ==
    LET index == zone - RESBASE
        CzDen == CMod(CDiv(zone - INDBASE, 9), 4) + 1
        result == CzDen
        cached == index >= 0 /\ index < POP_CACHE_SIZE /\ s.cacheInitialized # 0
        sr == IF cached THEN Log(s, "indPopCache", index, 0) ELSE s
    IN  IF zone < INDBASE \/ zone > LASTZONE THEN Ret(s, 0)
        ELSE IF zone = INDCLR THEN Ret(s, 0)
        ELSE IF cached /\ CacheRead(s.indPopCache, index) # 0
             THEN Ret(sr, CacheRead(s.indPopCache, index))
        ELSE IF zone - INDBASE > 32767 THEN Ret(sr, 0)
        ELSE IF result < 0 \/ result > 50 THEN Ret(sr, 0)
        ELSE IF index >= 0 /\ index < POP_CACHE_SIZE
             THEN [Log(sr, "indPopCache", index, 1) EXCEPT
                      !.indPopCache = CacheWrite(@, index, result), !.ret = result]
        ELSE Ret(sr, result)

(***************************************************************************)
(* Tile primitives of tiles.c, which zone.c calls. setMapTile with         *)
(* TILE_SET_PRESERVE writes the tile code, keeps the flags the cell has    *)
(* and adds the flags given; with TILE_SET_REPLACE the cell becomes the    *)
(* code with exactly the flags given. UpgradeTile changes the code alone.  *)
(* SetRubbleTile leaves one of the four rubble tiles, bulldozable, with    *)
(* no other flag.                                                          *)
(***************************************************************************)
TILE_SET_REPLACE == 0
TILE_SET_PRESERVE == 1

setMapTile(s, x, y, tile, flags, operation) ==
    IF ~BOUNDS_CHECK(x, y) THEN s
    ELSE LET old == s.Map[y][x]
             new == IF operation = TILE_SET_PRESERVE
                    THEN BitOr(Flags(old), flags) + Code(tile)
                    ELSE flags + Code(tile)
         IN  [s EXCEPT !.Map[y][x] = new]

UpgradeTile(s, x, y, newTile) == setMapTile(s, x, y, newTile, 0, TILE_SET_PRESERVE)

SetRubbleTile(s, x, y, r) == setMapTile(s, x, y, RUBBLE + r, BULLBIT, TILE_SET_REPLACE)

(***************************************************************************)
(* ZonePlop: the 3x3 stamp. Cell k = 0..8 of the scan is (dx, dy) =        *)
(* (k % 3 - 1, k \div 3 - 1); nb[k] is the value ZoneRandom(2) draws for   *)
(* that cell.                                                              *)
(***************************************************************************)
\* PlopSurround writing a road or rail neighbor as any other.
PlopSurround_OverRoads(s, xpos, ypos, base, nb, k) ==
    LET dx == (k % 3) - 1
        dy == (k \div 3) - 1
        x == xpos + dx
        y == ypos + dy
        newTile == base + BSIZE + (IF k \in DOMAIN nb THEN nb[k] ELSE 0)
    IN  IF ~BOUNDS_CHECK(x, y) THEN s
        ELSE IF dx = 0 /\ dy = 0 THEN s
        ELSE IF ~HasBit(s.Map[y][x], BULLBIT) THEN s
        ELSE IF newTile < 0 \/ newTile > LASTZONE THEN s
        ELSE setMapTile(s, x, y, newTile, CONDBIT + BURNBIT + BULLBIT, TILE_SET_PRESERVE)

PlopSurround(s, xpos, ypos, base, nb, k) ==
    LET dx == (k % 3) - 1
        dy == (k \div 3) - 1
        x == xpos + dx
        y == ypos + dy
        z == Code(s.Map[y][x])
        newTile == base + BSIZE + nb[k]
    IN  IF ~BOUNDS_CHECK(x, y) THEN s
        ELSE IF dx = 0 /\ dy = 0 THEN s
        ELSE IF ~((z < ROADS) \/ (z > LASTRAIL)) THEN s
        ELSE IF ~HasBit(s.Map[y][x], BULLBIT) THEN s
        ELSE IF newTile < 0 \/ newTile > LASTZONE THEN s
        ELSE setMapTile(s, x, y, newTile, CONDBIT + BURNBIT + BULLBIT, TILE_SET_PRESERVE)

RECURSIVE PlopLoop(_, _, _, _, _, _)
PlopLoop(s, xpos, ypos, base, nb, k) ==
    IF k > 8 THEN s
    ELSE PlopLoop(PlopSurround(s, xpos, ypos, base, nb, k), xpos, ypos, base, nb, k + 1)

\* ZonePlop without the test of the center's BULLBIT.
ZonePlop_NoBullCheck(s, xpos, ypos, base, nb) ==
    IF xpos < 0 \/ xpos >= WORLD_X \/ ypos < 0 \/ ypos >= WORLD_Y
    THEN Ret(Log(s, "ZonePlop", base, 0), 0)
    ELSE IF base < RESBASE \/ base > LASTZONE
    THEN Ret(Log(s, "ZonePlop", base, 0), 0)
    ELSE LET s1 == setMapTile(s, xpos, ypos, base,
                              BNCNBIT + BULLBIT, TILE_SET_PRESERVE)
             s2 == PlopLoop(s1, xpos, ypos, base, nb, 0)
         IN  Ret(Log(s2, "ZonePlop", base, 1), 1)

\* ZonePlop writing its center with TILE_SET_REPLACE.
ZonePlop_Replace(s, xpos, ypos, base, nb) ==
    IF xpos < 0 \/ xpos >= WORLD_X \/ ypos < 0 \/ ypos >= WORLD_Y
    THEN Ret(Log(s, "ZonePlop", base, 0), 0)
    ELSE IF ~HasBit(s.Map[ypos][xpos], BULLBIT)
    THEN Ret(Log(s, "ZonePlop", base, 0), 0)
    ELSE IF base < RESBASE \/ base > LASTZONE
    THEN Ret(Log(s, "ZonePlop", base, 0), 0)
    ELSE LET s1 == setMapTile(s, xpos, ypos, base,
                              BNCNBIT + BULLBIT, TILE_SET_REPLACE)
             s2 == PlopLoop(s1, xpos, ypos, base, nb, 0)
         IN  Ret(Log(s2, "ZonePlop", base, 1), 1)

ZonePlop(s, xpos, ypos, base, nb) ==
    IF xpos < 0 \/ xpos >= WORLD_X \/ ypos < 0 \/ ypos >= WORLD_Y
    THEN Ret(Log(s, "ZonePlop", base, 0), 0)
    ELSE IF ~HasBit(s.Map[ypos][xpos], BULLBIT)
    THEN Ret(Log(s, "ZonePlop", base, 0), 0)
    ELSE IF base < RESBASE \/ base > LASTZONE
    THEN Ret(Log(s, "ZonePlop", base, 0), 0)
    ELSE LET s1 == setMapTile(s, xpos, ypos, base,
                              BNCNBIT + BULLBIT, TILE_SET_PRESERVE)
             s2 == PlopLoop(s1, xpos, ypos, base, nb, 0)
         IN  Ret(Log(s2, "ZonePlop", base, 1), 1)

\* The cells of the 3x3 block around (xpos, ypos) for which ZonePlop draws
\* ZoneRandom(2).
PlopDraws(map, xpos, ypos) ==
    {k \in 0..8 :
        LET x == xpos + (k % 3) - 1
            y == ypos + (k \div 3) - 1
        IN  /\ k # 4
            /\ BOUNDS_CHECK(x, y)
            /\ (Code(map[y][x]) < ROADS \/ Code(map[y][x]) > LASTRAIL)
            /\ HasBit(map[y][x], BULLBIT)}

\* ResPlop encoding with 3 densities a value tier.
ResPlop_Stride(s, x, y, den, value, nb) ==
    LET s0 == Log(s, "ResPlop", den, value)
        v == IF value < 0 THEN 0 ELSE IF value > 3 THEN 3 ELSE value
        targetTile == (((v * 3) + den) * 9) + RZB
    IN  IF den < -4 \/ den > 4 THEN s0
        ELSE IF value < 0 \/ value > 8 THEN s0
        ELSE IF targetTile < RESBASE \/ targetTile >= COMBASE THEN s0
        ELSE IF CMod(targetTile - RZB, 9) # 0 THEN s0
        ELSE ZonePlop(s0, x, y, targetTile, nb)

ResPlop(s, x, y, den, value, nb) ==
    LET s0 == Log(s, "ResPlop", den, value)
        v == IF value < 0 THEN 0 ELSE IF value > 3 THEN 3 ELSE value
        targetTile == (((v * 4) + den) * 9) + RZB
    IN  IF den < -4 \/ den > 4 THEN s0
        ELSE IF value < 0 \/ value > 8 THEN s0
        ELSE IF targetTile < RESBASE \/ targetTile >= COMBASE THEN s0
        ELSE IF CMod(targetTile - RZB, 9) # 0 THEN s0
        ELSE ZonePlop(s0, x, y, targetTile, nb)

ComPlop(s, x, y, den, nb) ==
    LET targetTile == (((0 * 5) + den) * 9) + CZB - 4
    IN  ZonePlop(Log(s, "ComPlop", den, targetTile), x, y, targetTile, nb)

IndPlop(s, x, y, den, nb) ==
    LET targetTile == (((0 * 4) + den) * 9) + IZB - 4
    IN  ZonePlop(Log(s, "IndPlop", den, targetTile), x, y, targetTile, nb)

(***************************************************************************)
(* Land value tier and the three desirability evaluations.                 *)
(***************************************************************************)
\* GetCRVal testing the thresholds 30 and 80 in the wrong order.
GetCRVal_Swapped(s, x, y) ==
    LET LVal == LandValueMem[Shr(s.SMapY, 1)][Shr(s.SMapX, 1)]
                  - PollutionMem[Shr(s.SMapY, 1)][Shr(s.SMapX, 1)]
    IN  IF LVal < 80 THEN 1
        ELSE IF LVal < 30 THEN 0
        ELSE IF LVal < 150 THEN 2
        ELSE 3

\* GetCRVal with a negative tier for the lowest land values.
GetCRVal_Negative(s, x, y) ==
    LET LVal == LandValueMem[Shr(s.SMapY, 1)][Shr(s.SMapX, 1)]
                  - PollutionMem[Shr(s.SMapY, 1)][Shr(s.SMapX, 1)]
    IN  IF LVal < 30 THEN -1
        ELSE IF LVal < 80 THEN 1
        ELSE IF LVal < 150 THEN 2
        ELSE 3

GetCRVal(s, x, y) ==
    LET LVal == LandValueMem[Shr(s.SMapY, 1)][Shr(s.SMapX, 1)]
                  - PollutionMem[Shr(s.SMapY, 1)][Shr(s.SMapX, 1)]
    IN  IF LVal < 30 THEN 0
        ELSE IF LVal < 80 THEN 1
        ELSE IF LVal < 150 THEN 2
        ELSE 3

\* EvalRes subtracting 300 instead of 3000.
EvalRes_SmallOffset(s, traf) ==
    LET V0 == LandValueMem[Shr(s.SMapY, 1)][Shr(s.SMapX, 1)]
                - PollutionMem[Shr(s.SMapY, 1)][Shr(s.SMapX, 1)]
        V1 == IF V0 < 0 THEN 0 ELSE V0 * 32
        V2 == IF V1 > 6000 THEN 6000 ELSE V1
    IN  IF traf < 0 THEN -3000 ELSE V2 - 300

\* EvalRes subtracting 3200 instead of 3000.
EvalRes_Shifted(s, traf) ==
    LET V0 == LandValueMem[Shr(s.SMapY, 1)][Shr(s.SMapX, 1)]
                - PollutionMem[Shr(s.SMapY, 1)][Shr(s.SMapX, 1)]
        V1 == IF V0 < 0 THEN 0 ELSE V0 * 32
        V2 == IF V1 > 6000 THEN 6000 ELSE V1
    IN  IF traf < 0 THEN -3000 ELSE V2 - 3200

EvalRes(s, traf) ==
    LET V0 == LandValueMem[Shr(s.SMapY, 1)][Shr(s.SMapX, 1)]
                - PollutionMem[Shr(s.SMapY, 1)][Shr(s.SMapX, 1)]
        V1 == IF V0 < 0 THEN 0 ELSE V0 * 32
        V2 == IF V1 > 6000 THEN 6000 ELSE V1
    IN  IF traf < 0 THEN -3000 ELSE V2 - 3000

EvalCom(s, traf) ==
    IF traf < 0 THEN -3000 ELSE ComRate[Shr(s.SMapY, 3)][Shr(s.SMapX, 3)]

\* EvalInd returning a positive score when traffic is good.
EvalInd_Positive(s, traf) == IF traf < 0 THEN -1000 ELSE 1

EvalInd(s, traf) == IF traf < 0 THEN -1000 ELSE 0

(***************************************************************************)
(* Growth and decline handlers. in holds what the call draws from outside: *)
(* traf is MakeTraffic's return value, proad FindPRoad's, r4a, r4b, r2,    *)
(* r8, r20, r5 the values of the ZoneRandom(4), (4), (2), (8), (20), (5)   *)
(* draws in the order the handlers make them, rub the rubble tile           *)
(* SetRubbleTile picks, melt whether the meltdown draw hits, nb the        *)
(* ZoneRandom(2) draws of ZonePlop.                                        *)
(***************************************************************************)
IncROG(s, amount) == s

SetZPower(s, x, y) == s

SetSmoke(s, x, y) == s

EvalLot(s, x, y) ==
    LET z == Code(s.Map[y][x])
        score1 == IF (z >= RESBASE) /\ (z <= RESBASE + 8) THEN 0 ELSE 1
        score2 == IF score1 # 0 /\ z # DIRT THEN 0 ELSE score1
    IN  IF x < 0 \/ x >= WORLD_X \/ y < 0 \/ y >= WORLD_Y THEN -1
        ELSE score2

RECURSIVE BestLot(_, _, _, _, _)
BestLot(s, x, y, z, k) ==
    IF k > 8 THEN z
    ELSE LET xx == (k % 3) - 1
             yy == (k \div 3) - 1
             score == EvalLot(s, x + xx, y + yy)
         IN  BestLot(s, x, y,
                     IF (xx # 0 \/ yy # 0) /\ score > z THEN score ELSE z, k + 1)

\* The loop finds the best score z; the body of "if (z > 0)" is empty.
BuildHouse(s, x, y, value) == Log(s, "BuildHouse", BestLot(s, x, y, 0, 0), value)

\* DoResIn building a house on a placeholder whatever the population.
DoResIn_NoPopTest(s, pop, value, in) ==
    LET s0 == Log(s, "DoResIn", pop, value)
        z == PollutionMem[Shr(s.SMapY, 1)][Shr(s.SMapX, 1)]
        currentTile == Code(s.Map[s.SMapY][s.SMapX])
        density == CDiv(pop, 8) - 1
    IN  IF z > 128 THEN s0
        ELSE IF currentTile = HOSPITAL \/ currentTile = CHURCH THEN s0
        ELSE IF currentTile = FREEZ
             THEN IncROG(BuildHouse(s0, s.SMapX, s.SMapY, value), 1)
        ELSE IF pop < 40
             THEN IncROG(ResPlop(s0, s.SMapX, s.SMapY, density, value, in.nb), 8)
        ELSE s0

DoResIn(s, pop, value, in) ==
    LET s0 == Log(s, "DoResIn", pop, value)
        z == PollutionMem[Shr(s.SMapY, 1)][Shr(s.SMapX, 1)]
        currentTile == Code(s.Map[s.SMapY][s.SMapX])
        density == CDiv(pop, 8) - 1
    IN  IF z > 128 THEN s0
        ELSE IF currentTile = HOSPITAL \/ currentTile = CHURCH THEN s0
        ELSE IF currentTile = FREEZ
             THEN IF pop < 8
                  THEN IncROG(BuildHouse(s0, s.SMapX, s.SMapY, value), 1)
                  ELSE IF PopDensity[Shr(s.SMapY, 1)][Shr(s.SMapX, 1)] > 64
                  THEN IncROG(ResPlop(s0, s.SMapX, s.SMapY, 0, value, in.nb), 8)
                  ELSE s0
        ELSE IF pop < 40
             THEN IncROG(ResPlop(s0, s.SMapX, s.SMapY, density, value, in.nb), 8)
        ELSE s0

DoComIn(s, pop, value, in) ==
    LET s0 == Log(s, "DoComIn", pop, value)
        z == Shr(LandValueMem[Shr(s.SMapY, 1)][Shr(s.SMapX, 1)], 5)
    IN  IF pop > z THEN s0
        ELSE IF pop < 6
             THEN IncROG(ComPlop(s0, s.SMapX, s.SMapY, pop, in.nb), 8)
        ELSE s0

DoIndIn(s, pop, value, in) ==
    LET s0 == Log(s, "DoIndIn", pop, value)
    IN  IF pop < 4
        THEN IncROG(IndPlop(s0, s.SMapX, s.SMapY, pop, in.nb), 8)
        ELSE s0

\* ResStepDown without the test that the combined index is above 0.
ResStepDown_NoFloor(s, originalTile, x, y) ==
    LET currentFormula == originalTile - RZB
        currentCombined == CDiv(currentFormula, 9)
        newCombined == currentCombined - 1
        newTile == (newCombined * 9) + RZB
    IN  IF newTile >= RESBASE /\ newTile < COMBASE /\ CMod(newTile - RZB, 9) = 0
        THEN Log(UpgradeTile(s, x, y, newTile), "UpgradeTile", originalTile, newTile)
        ELSE s

\* The step both branches of DoResOut make: one combined index lower.
ResStepDown(s, originalTile, x, y) ==
    LET currentFormula == originalTile - RZB
        currentCombined == CDiv(currentFormula, 9)
        newCombined == currentCombined - 1
        newTile == (newCombined * 9) + RZB
    IN  IF currentCombined > 0
           /\ newTile >= RESBASE /\ newTile < COMBASE /\ CMod(newTile - RZB, 9) = 0
        THEN Log(UpgradeTile(s, x, y, newTile), "UpgradeTile", originalTile, newTile)
        ELSE s

\* The trace keeps, with the call, what ZoneRandom(4) and ZoneRandom(2) hold
\* for the ruin check (event RuinDraw), whether or not the check draws them.
DoResOut(s, pop, value, x, y, in) ==
    LET s0 == Log(Log(s, "DoResOut", pop, value), "RuinDraw", in.r4b, in.r2)
        originalTile == Code(s.Map[y][x])
        s1 == IF pop > 16 THEN ResStepDown(s0, originalTile, x, y)
              ELSE IF in.r4a = 0 THEN ResStepDown(s0, originalTile, x, y)
              ELSE s0
    IN  IF ~HasBit(s.Map[y][x], ZONEBIT) THEN s0
        ELSE IF CMod(originalTile - RZB, 9) # 0 THEN s0
        ELSE IF (originalTile <= (FREEZ + 18)) /\ (value < 30) /\ (pop = 0)
                /\ (in.r4b = 0) /\ (in.r2 = 0)
             THEN Log(SetRubbleTile(s1, x, y, in.rub), "SetRubbleTile", x, y)
        ELSE s1

DoComOut(s, pop, x, y, in) ==
    LET s0 == Log(s, "DoComOut", pop, 0)
        base == Code(s.Map[y][x]) - COMBASE
    IN  IF base = 0 THEN s0
        ELSE IF (base > 0) /\ (in.r8 = 0)
             THEN Log(UpgradeTile(s0, x, y, COMBASE + base - 1),
                      "UpgradeTile", base + COMBASE, COMBASE + base - 1)
        ELSE s0

DoIndOut(s, pop, x, y, in) ==
    LET s0 == Log(s, "DoIndOut", pop, 0)
        base == Code(s.Map[y][x]) - INDBASE
    IN  IF base = 0 THEN s0
        ELSE IF (base > 0) /\ (in.r8 = 0)
             THEN Log(setMapTile(s0, x, y, INDBASE + base - 1, 0, TILE_SET_PRESERVE),
                      "setMapTile", base + INDBASE, INDBASE + base - 1)
        ELSE s0

(***************************************************************************)
(* Category handlers.                                                      *)
(***************************************************************************)
DoIndustrial(s, x, y, in) ==
    LET zone == s.Map[y][x]
        sa == SetSmoke(SetZPower(Log(s, "DoIndustrial", x, y), x, y), x, y)
        zonePowered == HasBit(s.Map[y][x], POWERBIT)
        tpop == s.IZPop
        sc == calcIndPop(sa, Code(zone))
        pop == IF sc.ret = 0 /\ zonePowered THEN 1 ELSE sc.ret
        s1 == [sc EXCEPT !.IndPop = @ + pop]
        s2 == IF pop > 0 /\ CityTime % 8 = 0
              THEN LET st == Log([s1 EXCEPT !.SMapX = x, !.SMapY = y],
                                     "MakeTraffic", 2, in.traf)
                   IN  IF in.traf > 0 THEN [st EXCEPT !.IZPop = @ + pop] ELSE st
              ELSE s1
        value == GetCRVal(s2, x, y)
        value2 == EvalInd(s2, 1)
        s3 == IF CityTime % 8 = 0
              THEN IF value2 > 0 THEN DoIndIn(s2, tpop, value2, in)
                   ELSE IF value2 < 0 THEN DoIndOut(s2, tpop, x, y, in)
                   ELSE s2
              ELSE s2
    IN  IF ~HasBit(zone, ZONEBIT) THEN s
        ELSE IF CityTime % 8 = 0 /\ value < 0 THEN DoIndOut(s2, tpop, x, y, in)
        ELSE IF CityTime % 8 = 0 THEN [s3 EXCEPT !.IZPop = 0]
        ELSE s3

\* DoCommercial without the floor of 1 for a powered zone.
DoCommercial_NoFloor(s, x, y, in) ==
    LET zone == s.Map[y][x]
        sa == SetZPower(Log(s, "DoCommercial", x, y), x, y)
        zonePowered == HasBit(s.Map[y][x], POWERBIT)
        tpop == s.CZPop
        sc == calcComPop(sa, Code(zone))
        pop == sc.ret
        s1 == [sc EXCEPT !.ComPop = @ + pop]
        s2 == IF pop > 0 /\ CityTime % 8 = 0
              THEN LET st == Log([s1 EXCEPT !.SMapX = x, !.SMapY = y],
                                     "MakeTraffic", 1, in.traf)
                   IN  IF in.traf > 0 THEN [st EXCEPT !.CZPop = @ + pop] ELSE st
              ELSE s1
        value == GetCRVal(s2, x, y)
        value2 == EvalCom(s2, 1)
        s3 == IF CityTime % 8 = 0
              THEN IF value2 > 0 THEN DoComIn(s2, tpop, value2, in)
                   ELSE IF value2 < 0 THEN DoComOut(s2, tpop, x, y, in)
                   ELSE s2
              ELSE s2
    IN  IF ~HasBit(zone, ZONEBIT) THEN s
        ELSE IF CityTime % 8 = 0 /\ value < 0 THEN DoComOut(s2, tpop, x, y, in)
        ELSE IF CityTime % 8 = 0 THEN [s3 EXCEPT !.CZPop = 0]
        ELSE s3

DoCommercial(s, x, y, in) ==
    LET zone == s.Map[y][x]
        sa == SetZPower(Log(s, "DoCommercial", x, y), x, y)
        zonePowered == HasBit(s.Map[y][x], POWERBIT)
        tpop == s.CZPop
        sc == calcComPop(sa, Code(zone))
        pop == IF sc.ret = 0 /\ zonePowered THEN 1 ELSE sc.ret
        s1 == [sc EXCEPT !.ComPop = @ + pop]
        s2 == IF pop > 0 /\ CityTime % 8 = 0
              THEN LET st == Log([s1 EXCEPT !.SMapX = x, !.SMapY = y],
                                     "MakeTraffic", 1, in.traf)
                   IN  IF in.traf > 0 THEN [st EXCEPT !.CZPop = @ + pop] ELSE st
              ELSE s1
        value == GetCRVal(s2, x, y)
        value2 == EvalCom(s2, 1)
        s3 == IF CityTime % 8 = 0
              THEN IF value2 > 0 THEN DoComIn(s2, tpop, value2, in)
                   ELSE IF value2 < 0 THEN DoComOut(s2, tpop, x, y, in)
                   ELSE s2
              ELSE s2
    IN  IF ~HasBit(zone, ZONEBIT) THEN s
        ELSE IF CityTime % 8 = 0 /\ value < 0 THEN DoComOut(s2, tpop, x, y, in)
        ELSE IF CityTime % 8 = 0 THEN [s3 EXCEPT !.CZPop = 0]
        ELSE s3

DoResidential(s, x, y, in) ==
    LET zone == s.Map[y][x]
        sa == Log(s, "DoResidential", x, y)
        zonePowered == HasBit(s.Map[y][x], POWERBIT)
        tpop == s.RZPop
        tileId == Code(zone)
        sc == calcResPop(sa, tileId)
        pop == IF sc.ret = 0 /\ zonePowered THEN 1 ELSE sc.ret
        s1 == [sc EXCEPT !.ResPop = @ + pop]
        s2 == IF pop > 0 /\ CityTime % 8 = 0
              THEN LET st == Log([s1 EXCEPT !.SMapX = x, !.SMapY = y],
                                     "MakeTraffic", 0, in.traf)
                   IN  IF in.traf > 0 THEN [st EXCEPT !.RZPop = @ + pop] ELSE st
              ELSE s1
        value == GetCRVal(s2, x, y)
        value2 == EvalRes(s2, 1)
        landValue == GetCRVal(s2, x, y)
        s3 == IF value2 > 0 THEN DoResIn(s2, tpop, landValue, in)
              ELSE IF value2 < 0 THEN DoResOut(s2, tpop, value2, x, y, in)
              ELSE s2
    IN  IF ~HasBit(zone, ZONEBIT) THEN s
        ELSE IF CityTime % 8 # 0 THEN s2
        ELSE IF value < 0 THEN DoResOut(s2, tpop, value, x, y, in)
        ELSE IF ~zonePowered THEN DoResOut(s2, tpop, -500, x, y, in)
        ELSE [s3 EXCEPT !.RZPop = 0]

\* DoHospChur acting every 8th tick instead of every 4th.
DoHospChur_Every8(s, x, y, in) ==
    LET sa == SetZPower(Log(s, "DoHospChur", x, y), x, y)
        zonePowered == HasBit(s.Map[y][x], POWERBIT)
        z == Code(s.Map[y][x])
    IN  IF ~HasBit(s.Map[y][x], ZONEBIT) THEN s
        ELSE IF CityTime % 8 # 0 THEN sa
        ELSE IF z = HOSPITAL
             THEN LET s1 == [sa EXCEPT !.ResPop = @ + (IF zonePowered THEN 30 ELSE 5)]
                  IN  IF in.r20 < 10 THEN [s1 EXCEPT !.IZPop = @ + 1] ELSE s1
        ELSE IF z = CHURCH
             THEN LET s1 == [sa EXCEPT !.ResPop = @ + (IF zonePowered THEN 10 ELSE 2)]
                  IN  IF in.r20 < 10 THEN [s1 EXCEPT !.RZPop = @ + 1] ELSE s1
        ELSE sa

DoHospChur(s, x, y, in) ==
    LET sa == SetZPower(Log(s, "DoHospChur", x, y), x, y)
        zonePowered == HasBit(s.Map[y][x], POWERBIT)
        z == Code(s.Map[y][x])
    IN  IF ~HasBit(s.Map[y][x], ZONEBIT) THEN s
        ELSE IF CityTime % 4 # 0 THEN sa
        ELSE IF z = HOSPITAL
             THEN LET s1 == [sa EXCEPT !.ResPop = @ + (IF zonePowered THEN 30 ELSE 5)]
                  IN  IF in.r20 < 10 THEN [s1 EXCEPT !.IZPop = @ + 1] ELSE s1
        ELSE IF z = CHURCH
             THEN LET s1 == [sa EXCEPT !.ResPop = @ + (IF zonePowered THEN 10 ELSE 2)]
                  IN  IF in.r20 < 10 THEN [s1 EXCEPT !.RZPop = @ + 1] ELSE s1
        ELSE sa

\* The effect a station leaves in its influence cell: the base effect,
\* halved without power and halved again without road access.
StationEffect(base, powered, proad) ==
    LET effect == IF powered THEN base ELSE Shr(base, 1)
    IN  IF ~proad THEN Shr(effect, 1) ELSE effect

\* DoSPZ adding the effect to the influence cell instead of storing it.
DoSPZ_Accumulate(s, x, y, in) ==
    LET sa == SetZPower(Log(s, "DoSPZ", x, y), x, y)
        z == Code(s.Map[y][x])
        powered == HasBit(s.Map[y][x], POWERBIT)
        sr == Log(sa, "FindPRoad", 0, IF in.proad THEN 1 ELSE 0)
        pe == s.PoliceMap[Shr(y, 2)][Shr(x, 2)] + StationEffect(PoliceEffect, powered, in.proad)
        fe == s.FireStMap[Shr(y, 2)][Shr(x, 2)] + StationEffect(FireEffect, powered, in.proad)
    IN  IF ~HasBit(s.Map[y][x], ZONEBIT) THEN s
        ELSE IF CityTime % 16 # 0 THEN sa
        ELSE IF z = POLICESTATION
             THEN [sr EXCEPT !.PoliceMap[Shr(y, 2)][Shr(x, 2)] =
                                 IF pe > 250 THEN 250 ELSE pe]
        ELSE IF z = FIRESTATION
             THEN [sr EXCEPT !.FireStMap[Shr(y, 2)][Shr(x, 2)] =
                                 IF fe > 250 THEN 250 ELSE fe]
        ELSE sa

\* makeMeltdown belongs to the disaster system; the call is recorded, and so
\* is what FindPRoad returned.
DoSPZ(s, x, y, in) ==
    LET sa == SetZPower(Log(s, "DoSPZ", x, y), x, y)
        z == Code(s.Map[y][x])
        powered == HasBit(s.Map[y][x], POWERBIT)
        sr == Log(sa, "FindPRoad", 0, IF in.proad THEN 1 ELSE 0)
        pe == StationEffect(PoliceEffect, powered, in.proad)
        fe == StationEffect(FireEffect, powered, in.proad)
    IN  IF ~HasBit(s.Map[y][x], ZONEBIT) THEN s
        ELSE IF CityTime % 16 # 0 THEN sa
        ELSE IF z = POWERPLANT THEN SetSmoke(sa, x, y)
        ELSE IF z = STADIUM
             THEN LET s1 == [sa EXCEPT !.ComPop = @ + 50]
                  IN  IF in.r5 = 1 THEN [s1 EXCEPT !.CZPop = @ + 1] ELSE s1
        ELSE IF z = NUCLEAR
             THEN LET s1 == [sa EXCEPT !.NuclearPop = @ + 1]
                  IN  IF in.melt THEN Log(s1, "makeMeltdown", x, y) ELSE s1
        ELSE IF z = POLICESTATION
             THEN [sr EXCEPT !.PoliceMap[Shr(y, 2)][Shr(x, 2)] =
                                 IF pe > 250 THEN 250 ELSE pe]
        ELSE IF z = FIRESTATION
             THEN [sr EXCEPT !.FireStMap[Shr(y, 2)][Shr(x, 2)] =
                                 IF fe > 250 THEN 250 ELSE fe]
        ELSE sa

(***************************************************************************)
(* DoZone: the per-tile entry point.                                       *)
(***************************************************************************)
\* DoZone without the test of the tile's ZONEBIT.
DoZone_NoCenterCheck(s, Xloc, Yloc, pos, in) ==
    LET s1 == [s EXCEPT !.SMapX = Xloc, !.SMapY = Yloc]
        s2 == IF (pos < HOSPITALBASE \/ pos > FOOTBALLBASE)
                 /\ pos \in {POWERPLANT, NUCLEAR, PORT, AIRPORT}
              THEN SetZPower(s1, Xloc, Yloc) ELSE s1
    IN  IF pos >= RESBASE /\ pos < COMBASE
             THEN IF pos = HOSPITAL \/ pos = CHURCH
                  THEN DoHospChur(s1, Xloc, Yloc, in)
                  ELSE DoResidential(SetZPower(s1, Xloc, Yloc), Xloc, Yloc, in)
        ELSE IF pos >= RESBASE /\ pos < INDBASE
             THEN DoCommercial(SetZPower(s1, Xloc, Yloc), Xloc, Yloc, in)
        ELSE IF pos >= RESBASE /\ pos < PORTBASE
             THEN DoIndustrial(SetZPower(s1, Xloc, Yloc), Xloc, Yloc, in)
        ELSE IF pos = POLICESTATION \/ pos = FIRESTATION
             THEN DoSPZ(s2, Xloc, Yloc, in)
        ELSE IF pos >= HOSPITALBASE /\ pos <= FOOTBALLBASE
             THEN DoHospChur(s2, Xloc, Yloc, in)
        ELSE DoSPZ(s2, Xloc, Yloc, in)

DoZone(s, Xloc, Yloc, pos, in) ==
    LET s1 == [s EXCEPT !.SMapX = Xloc, !.SMapY = Yloc]
        s2 == IF (pos < HOSPITALBASE \/ pos > FOOTBALLBASE)
                 /\ pos \in {POWERPLANT, NUCLEAR, PORT, AIRPORT}
              THEN SetZPower(s1, Xloc, Yloc) ELSE s1
    IN  IF ~HasBit(s.Map[Yloc][Xloc], ZONEBIT) THEN s
        ELSE IF pos >= RESBASE /\ pos < COMBASE
             THEN IF pos = HOSPITAL \/ pos = CHURCH
                  THEN DoHospChur(s1, Xloc, Yloc, in)
                  ELSE DoResidential(SetZPower(s1, Xloc, Yloc), Xloc, Yloc, in)
        ELSE IF pos >= RESBASE /\ pos < INDBASE
             THEN DoCommercial(SetZPower(s1, Xloc, Yloc), Xloc, Yloc, in)
        ELSE IF pos >= RESBASE /\ pos < PORTBASE
             THEN DoIndustrial(SetZPower(s1, Xloc, Yloc), Xloc, Yloc, in)
        ELSE IF pos = POLICESTATION \/ pos = FIRESTATION
             THEN DoSPZ(s2, Xloc, Yloc, in)
        ELSE IF pos >= HOSPITALBASE /\ pos <= FOOTBALLBASE
             THEN DoHospChur(s2, Xloc, Yloc, in)
        ELSE DoSPZ(s2, Xloc, Yloc, in)

(***************************************************************************)
(* What a call may draw from outside, by the category DoZone dispatches    *)
(* pos to: only the draws that category's handlers make are varied.        *)
(***************************************************************************)
IsResPos(pos) == pos >= RESBASE /\ pos < COMBASE /\ pos # HOSPITAL /\ pos # CHURCH
IsComPos(pos) == pos >= COMBASE /\ pos < INDBASE
IsIndPos(pos) == pos >= INDBASE /\ pos < PORTBASE
IsZonePos(pos) == IsResPos(pos) \/ IsComPos(pos) \/ IsIndPos(pos)

Draws(map, x, y, pos) ==
    LET center == HasBit(map[y][x], ZONEBIT)
        zone8 == center /\ IsZonePos(pos) /\ CityTime % 8 = 0
        res8 == center /\ IsResPos(pos) /\ CityTime % 8 = 0
        ruin == res8 /\ Code(map[y][x]) <= RZB
        rubble == ruin /\ Code(map[y][x]) <= FREEZ + 18
                       /\ CMod(Code(map[y][x]) - RZB, 9) = 0
        out8 == center /\ (IsComPos(pos) \/ IsIndPos(pos)) /\ CityTime % 8 = 0
        other == center /\ ~IsZonePos(pos)
    IN  { [traf |-> t, proad |-> pr, r4a |-> a, r4b |-> b, r2 |-> c, rub |-> ru,
           r8 |-> d, r20 |-> e, r5 |-> f, melt |-> m, nb |-> n] :
            t \in (IF zone8 THEN {-1, 0, 1} ELSE {0}),
            pr \in (IF other /\ CityTime % 16 = 0 THEN BOOLEAN ELSE {TRUE}),
            a \in (IF res8 THEN 0..3 ELSE {1}),
            b \in (IF ruin THEN 0..3 ELSE {1}),
            c \in (IF ruin THEN 0..1 ELSE {1}),
            ru \in (IF rubble THEN 0..3 ELSE {0}),
            d \in (IF out8 THEN 0..7 ELSE {1}),
            e \in (IF other /\ CityTime % 4 = 0 THEN 0..19 ELSE {10}),
            f \in (IF other /\ CityTime % 16 = 0 THEN 0..4 ELSE {0}),
            m \in (IF other /\ CityTime % 16 = 0 THEN BOOLEAN ELSE {FALSE}),
            n \in (IF zone8 THEN [PlopDraws(map, x, y) -> {0, 1}]
                   ELSE [PlopDraws(map, x, y) -> {0}]) }

(***************************************************************************)
(* The city the zone engine runs on: one zone center at Center, on a       *)
(* fixed neighbourhood (a road, a bulldozable rubble tile, a rubble tile   *)
(* that is not bulldozable, bare dirt).                                    *)
(* A scenario names the center's tile code and flags, the values of the    *)
(* coarse grids at the center's cell, and rz, the value the running        *)
(* counter RZPop holds: visits of unpowered residential zones leave it at  *)
(* a multiple of 16. For a commercial center rz is the value of CZPop,     *)
(* which stadium visits raise by 1 between two commercial visits.          *)
(***************************************************************************)
Center == <<1, 0>>
CX == Center[1]
CY == Center[2]

Rows == 0..(WORLD_Y - 1)
Cols == 0..(WORLD_X - 1)
Coarse(n, k) == 0..Shr(n - 1, k)

Scenario(code, flags, lv, pol, pd, cr, pe, rz) ==
    [code |-> code, flags |-> flags, lv |-> lv, pol |-> pol, pd |-> pd,
     cr |-> cr, pe |-> pe, rz |-> rz]

CenterFlags == {ZONEBIT + BULLBIT + POWERBIT, ZONEBIT + POWERBIT}
AllFlags == ZONEBIT + BULLBIT + POWERBIT

ResScenarios ==
    { Scenario(c, f, lp[1], lp[2], 0, 0, 0, 0) :
        c \in {RZB, RZB + 27}, f \in CenterFlags,
        lp \in {<<20, 0>>, <<85, 0>>, <<100, 0>>, <<250, 129>>} }
    \cup { Scenario(RZB, AllFlags, 100, 0, 0, 0, 0, rz) : rz \in {16, 48} }
    \cup { Scenario(RZB, AllFlags, lv, 0, 0, 0, 0, 0) : lv \in {93, 94, 250} }
    \cup { Scenario(RZB + 9, AllFlags, 20, 0, 0, 0, 0, rz) : rz \in {0, 48} }
    \cup { Scenario(RZB, AllFlags, 250, 0, 0, 0, 0, 32) }
    \cup { Scenario(FREEZ, AllFlags, 100, 0, pd, 0, 0, rz) :
             pd \in {0, 65}, rz \in {0, 48} }
ComScenarios ==
    { Scenario(c, f, lv, 0, 0, cr, 0, 0) :
        c \in {COMCLR, CZB - 4}, f \in CenterFlags,
        lv \in {20, 250}, cr \in {-1, 0, 5} }
    \cup { Scenario(COMCLR, AllFlags, lc[1], 0, 0, 5, 0, lc[2]) :
             lc \in {<<20, 1>>, <<32, 1>>, <<250, 1>>, <<250, 6>>} }
IndScenarios ==
    { Scenario(c, f, 100, 0, 0, 0, 0, 0) : c \in {INDCLR, IZB - 4}, f \in CenterFlags }
    \cup { Scenario(IZB - 4, AllFlags, lp[1], lp[2], 0, 0, 0, 0) :
             lp \in {<<0, 255>>, <<250, 0>>} }
SpecialScenarios ==
    { Scenario(c, AllFlags, 100, 0, 0, 0, 0, 0) :
        c \in {HOSPITAL, CHURCH, POWERPLANT, STADIUM, NUCLEAR} }
    \cup { Scenario(c, AllFlags, 100, 0, 0, 0, pe, 0) :
        c \in {POLICESTATION, FIRESTATION}, pe \in {100, 1000} }
Scenarios == ResScenarios \cup ComScenarios \cup IndScenarios \cup SpecialScenarios

InitTile(sc, x, y) ==
    IF <<x, y>> = Center THEN sc.code + sc.flags
    ELSE IF <<x, y>> = <<0, 0>> THEN (ROADS + 2) + BULLBIT + BURNBIT
    ELSE IF <<x, y>> = <<2, 0>> THEN RUBBLE + BULLBIT
    ELSE IF <<x, y>> = <<1, 1>> THEN RUBBLE + 1
    ELSE DIRT

CoarseGrid(k, v) ==
    [yy \in Coarse(WORLD_Y, k) |->
        [xx \in Coarse(WORLD_X, k) |->
            IF yy = Shr(CY, k) /\ xx = Shr(CX, k) THEN v ELSE 0]]

NoCall == [op |-> "none", x |-> 0, y |-> 0, pos |-> 0, trace |-> << >>, ret |-> 0]

InitCity(sc, t) ==
    /\ Map = [y \in Rows |-> [x \in Cols |-> InitTile(sc, x, y)]]
    /\ RZPop = (IF IsComPos(sc.code) THEN 0 ELSE sc.rz)
    /\ CZPop = (IF IsComPos(sc.code) THEN sc.rz ELSE 0)
    /\ IZPop = 0
    /\ ResPop = 0 /\ ComPop = 0 /\ IndPop = 0 /\ NuclearPop = 0
    /\ PoliceMap = CoarseGrid(2, 0)
    /\ FireStMap = CoarseGrid(2, 0)
    /\ SMapX = 0 /\ SMapY = 0
    /\ resPopCache = << >>
    /\ comPopCache = << >>
    /\ indPopCache = << >>
    /\ cacheInitialized = 0
    /\ CityTime = t
    /\ LandValueMem = CoarseGrid(1, sc.lv)
    /\ PollutionMem = CoarseGrid(1, sc.pol)
    /\ PopDensity = CoarseGrid(1, sc.pd)
    /\ ComRate = CoarseGrid(3, sc.cr)
    /\ PoliceEffect = sc.pe
    /\ FireEffect = sc.pe
    /\ visits = 0
    /\ call = NoCall
    /\ pre = Snapshot(State)

Init == \E sc \in Scenarios : InitCity(sc, 0)

\* The program state after a call.
Becomes(s) ==
    /\ Map' = s.Map
    /\ RZPop' = s.RZPop /\ CZPop' = s.CZPop /\ IZPop' = s.IZPop
    /\ ResPop' = s.ResPop /\ ComPop' = s.ComPop /\ IndPop' = s.IndPop
    /\ NuclearPop' = s.NuclearPop
    /\ PoliceMap' = s.PoliceMap /\ FireStMap' = s.FireStMap
    /\ SMapX' = s.SMapX /\ SMapY' = s.SMapY
    /\ resPopCache' = s.resPopCache
    /\ comPopCache' = s.comPopCache
    /\ indPopCache' = s.indPopCache
    /\ cacheInitialized' = s.cacheInitialized

Called(op, x, y, pos, s) ==
    call' = [op |-> op, x |-> x, y |-> y, pos |-> pos, trace |-> s.trace, ret |-> s.ret]

(***************************************************************************)
(* The driver. Tick advances the tick counter and clears the census        *)
(* totals, as the map scan does before it starts; PowerScan sets or clears *)
(* the center's POWERBIT; Visit is the scan calling DoZone on a zone       *)
(* center with the tile's code. DoZone tests CityTime & 3, & 7 and & 15    *)
(* only, so the model keeps one tick of each residue class these tests     *)
(* tell apart. The driver makes MaxVisits visits.                          *)
(***************************************************************************)
Ticks == {0, 1, 4, 8}

Visit(x, y) ==
    /\ visits < MaxVisits
    /\ HasBit(Map[y][x], ZONEBIT)
    /\ \E in \in Draws(Map, x, y, Code(Map[y][x])) :
          \E s \in {DoZone(State, x, y, Code(Map[y][x]), in)} :
              /\ Becomes(s)
              /\ Called("DoZone", x, y, Code(Map[y][x]), s)
    /\ pre' = Snapshot(State)
    /\ visits' = visits + 1
    /\ UNCHANGED envVars

Tick ==
    /\ visits < MaxVisits
    /\ \E t \in Ticks \ {CityTime} : CityTime' = t
    /\ ResPop' = 0 /\ ComPop' = 0 /\ IndPop' = 0 /\ NuclearPop' = 0
    /\ call' = NoCall
    /\ pre' = Snapshot([State EXCEPT !.ResPop = 0, !.ComPop = 0, !.IndPop = 0,
                                     !.NuclearPop = 0])
    /\ UNCHANGED <<Map, RZPop, CZPop, IZPop, PoliceMap, FireStMap, SMapX, SMapY,
                   resPopCache, comPopCache, indPopCache, cacheInitialized,
                   LandValueMem, PollutionMem, PopDensity, ComRate,
                   PoliceEffect, FireEffect, visits>>

PowerScan ==
    /\ visits < MaxVisits
    /\ Map' = [Map EXCEPT ![CY][CX] =
                  IF HasBit(@, POWERBIT) THEN @ - POWERBIT ELSE @ + POWERBIT]
    /\ call' = NoCall
    /\ pre' = Snapshot([State EXCEPT !.Map = Map'])
    /\ UNCHANGED <<RZPop, CZPop, IZPop, ResPop, ComPop, IndPop, NuclearPop,
                   PoliceMap, FireStMap, SMapX, SMapY, resPopCache, comPopCache,
                   indPopCache, cacheInitialized, envVars, visits>>

Next ==
    \/ \E x \in Cols, y \in Rows : Visit(x, y)
    \/ Tick
    \/ PowerScan

Spec == Init /\ [][Next]_vars

(***************************************************************************)
(* The handlers called once with arguments drawn from small sets, on the   *)
(* cities of CallScenarios at every tick of Ticks. DoZone is the entry     *)
(* point other modules call, so pos is any code of CallPos and need not be *)
(* the code of the tile; ZonePlop takes coordinates one cell outside the   *)
(* grid and base codes around both ends of the range it accepts; ResPlop   *)
(* takes densities and values one outside the ranges it accepts.           *)
(***************************************************************************)
CallScenarios ==
    { Scenario(RZB, f, 100, 0, 0, 0, 0, 0) : f \in CenterFlags }
    \cup { Scenario(CZB - 4, AllFlags - POWERBIT, 250, 0, 0, 5, 0, 0),
           Scenario(POLICESTATION, AllFlags, 100, 0, 0, 0, 100, 0) }
CallPos == {DIRT, RESBASE, RZB, HOSPITAL, CZB - 4, IZB - 4, POLICESTATION, NUCLEAR,
            FOOTBALLBASE + 1}
PlopBases == {RESBASE - 1, RESBASE, RZB + 9, LASTZONE, LASTZONE + 1}

InitCall == \E sc \in CallScenarios, t \in Ticks : InitCity(sc, t)

CallDoZone ==
    /\ call = NoCall
    /\ \E x \in Cols, y \in Rows, pos \in CallPos :
          \E in \in Draws(Map, x, y, pos) :
              \E s \in {DoZone(State, x, y, pos, in)} :
                  /\ Becomes(s)
                  /\ Called("DoZone", x, y, pos, s)
    /\ pre' = Snapshot(State)
    /\ UNCHANGED <<envVars, visits>>

CallZonePlop ==
    /\ call = NoCall
    /\ \E xpos \in -1..WORLD_X, ypos \in -1..WORLD_Y, base \in PlopBases :
          \E nb \in [PlopDraws(Map, xpos, ypos) -> {0, 1}] :
              \E s \in {ZonePlop(State, xpos, ypos, base, nb)} :
                  /\ Becomes(s)
                  /\ Called("ZonePlop", xpos, ypos, base, s)
    /\ pre' = Snapshot(State)
    /\ UNCHANGED <<envVars, visits>>

CallResPlop ==
    /\ call = NoCall
    /\ \E den \in -5..5, value \in -1..9 :
          \E nb \in [PlopDraws(Map, CX, CY) -> {0, 1}] :
              \E s \in {ResPlop(State, CX, CY, den, value, nb)} :
                  /\ Becomes(s)
                  /\ Called("ResPlop", CX, CY, 0, s)
    /\ pre' = Snapshot(State)
    /\ UNCHANGED <<envVars, visits>>

NextCall ==
    \/ CallDoZone
    \/ CallZonePlop
    \/ CallResPlop

SpecCall == InitCall /\ [][NextCall]_vars

(***************************************************************************)
(* The three population estimators called in any order on the codes of     *)
(* PopCodes: codes below, inside and above each category's range, with     *)
(* cache indices inside and outside the caches.                            *)
(***************************************************************************)
PopCodes == {RESBASE - 1, RZB, COMCLR, CZB, INDCLR, IZB, STADIUM, LASTZONE + 1}

InitPop == InitCity(Scenario(RZB, AllFlags, 100, 0, 0, 0, 0, 0), 0)

CalledPop(op, zone, s) ==
    /\ Becomes(s)
    /\ call' = [op |-> op, x |-> 0, y |-> 0, pos |-> zone, trace |-> s.trace,
                ret |-> s.ret]
    /\ pre' = Snapshot(State)
    /\ UNCHANGED <<envVars, visits>>

CallCalcResPop ==
    \E zone \in PopCodes : \E s \in {calcResPop(State, zone)} :
        CalledPop("calcResPop", zone, s)

CallCalcComPop ==
    \E zone \in PopCodes : \E s \in {calcComPop(State, zone)} :
        CalledPop("calcComPop", zone, s)

CallCalcIndPop ==
    \E zone \in PopCodes : \E s \in {calcIndPop(State, zone)} :
        CalledPop("calcIndPop", zone, s)

NextPop ==
    \/ CallCalcResPop
    \/ CallCalcComPop
    \/ CallCalcIndPop

SpecPop == InitPop /\ [][NextPop]_vars

(***************************************************************************)
(* The land value tier and the three evaluations called once at the        *)
(* center, after DoZone has set SMapX and SMapY to it, with land value and *)
(* pollution drawn from both ends of the range of a grid cell and both     *)
(* sides of every threshold, and traf from the values MakeTraffic returns. *)
(***************************************************************************)
LandValues == {0, 29, 30, 79, 80, 149, 150, 255}
Pollutions == {0, 1, 255}
ComRates == {-1, 0, 5}
TrafResults == {-1, 0, 1}

InitVal ==
    \E lv \in LandValues, pol \in Pollutions, cr \in ComRates :
        InitCity(Scenario(RZB, AllFlags, lv, pol, 0, cr, 0, 0), 0)

AtCenter == [State EXCEPT !.SMapX = CX, !.SMapY = CY]

CalledVal(op, arg, v) ==
    /\ call = NoCall
    /\ Becomes(AtCenter)
    /\ call' = [op |-> op, x |-> CX, y |-> CY, pos |-> arg, trace |-> << >>, ret |-> v]
    /\ pre' = Snapshot(State)
    /\ UNCHANGED <<envVars, visits>>

CallGetCRVal == CalledVal("GetCRVal", 0, GetCRVal(AtCenter, CX, CY))

CallEvalRes == \E traf \in TrafResults : CalledVal("EvalRes", traf, EvalRes(AtCenter, traf))

CallEvalCom == \E traf \in TrafResults : CalledVal("EvalCom", traf, EvalCom(AtCenter, traf))

CallEvalInd == \E traf \in TrafResults : CalledVal("EvalInd", traf, EvalInd(AtCenter, traf))

NextVal ==
    \/ CallGetCRVal
    \/ CallEvalRes
    \/ CallEvalCom
    \/ CallEvalInd

SpecVal == InitVal /\ [][NextVal]_vars

(***************************************************************************)
(* Properties of the zone engine. They are stated on the last visit: call  *)
(* is the visit with the handlers it entered, pre the program state it     *)
(* started from; a visit leaves CityTime and the coarse grids unchanged.   *)
(***************************************************************************)
Visited == call.op = "DoZone"
CenterBefore == pre.Map[call.y][call.x]
CenterAfter == Map[call.y][call.x]
\* The program state with the caches as they are at program start.
Uncached == [State EXCEPT !.resPopCache = << >>, !.comPopCache = << >>,
                          !.indPopCache = << >>, !.cacheInitialized = 0]
InGrid == BOUNDS_CHECK(call.x, call.y)
MapUnchanged == Map = pre.Map
LocalLandValue == LandValueMem[Shr(call.y, 1)][Shr(call.x, 1)]
LocalPollution == PollutionMem[Shr(call.y, 1)][Shr(call.x, 1)]
\* The call entered handler h with second argument b.
EnteredWith(tr, h, b) == \E i \in 1..Len(tr) : tr[i].h = h /\ tr[i].b = b

\* C1: a residential, commercial or industrial visit at a tick that is a
\* multiple of 8 returns with the running counter of its category at 0.
C1_CounterResetEvery8 ==
    (Visited /\ CityTime % 8 = 0) =>
        /\ IsResPos(call.pos) => RZPop = 0
        /\ IsComPos(call.pos) => CZPop = 0
        /\ IsIndPos(call.pos) => IZPop = 0

\* C2: a visit of a NUCLEAR zone center at a tick that is a multiple of 16
\* increases NuclearPop by exactly 1.
C2_NuclearCounted ==
    (Visited /\ call.pos = NUCLEAR /\ CityTime % 16 = 0) =>
        NuclearPop = pre.NuclearPop + 1

\* The scenario of C3: a powered center with code RZB and no pollution,
\* visited at a tick that is a multiple of 8, with land value minus
\* pollution in lo..hi.
C3_Scenario(lo, hi) ==
    /\ Visited /\ CityTime % 8 = 0
    /\ call.pos = RZB
    /\ HasBit(CenterBefore, POWERBIT)
    /\ LocalPollution = 0
    /\ LocalLandValue - LocalPollution \in lo..hi
C3_Grew ==
    /\ Entered(call.trace, "DoResIn")
    /\ ~Entered(call.trace, "DoResOut")
    /\ Code(CenterAfter) > RZB
    /\ CMod(Code(CenterAfter) - RZB, 9) = 0

\* C3 as stated: in that scenario with land value tier 2 (land value minus
\* pollution anywhere in 80..149) the visit takes the growth path and
\* leaves an aligned center code above RZB.
C3_Tier2AlwaysGrows == C3_Scenario(80, 149) => C3_Grew

\* C3, amended: the visit grows the zone when land value minus pollution is
\* in 94..149, the running counter RZPop is below 40 when the visit starts
\* and the center is bulldozable.
C3_GrowsFrom94 ==
    (C3_Scenario(94, 149) /\ pre.RZPop < 40 /\ HasBit(CenterBefore, BULLBIT)) => C3_Grew
C3_Witness ==
    /\ C3_Scenario(94, 149) /\ pre.RZPop < 40 /\ HasBit(CenterBefore, BULLBIT)
    /\ EnteredWith(call.trace, "ZonePlop", 1)
    /\ Code(CenterAfter) > RZB

\* C4: a visit at a tick that is a multiple of 8 of a residential center
\* whose POWERBIT is clear invokes DoResOut with desirability -500 and does
\* not invoke DoResIn.
C4_UnpoweredDeclines ==
    (Visited /\ CityTime % 8 = 0 /\ IsResPos(call.pos) /\ ~HasBit(CenterBefore, POWERBIT)) =>
        /\ EnteredWith(call.trace, "DoResOut", -500)
        /\ ~Entered(call.trace, "DoResIn")
C4_Witness ==
    /\ Visited /\ CityTime % 8 = 0 /\ IsResPos(call.pos)
    /\ ~HasBit(CenterBefore, POWERBIT)
    /\ LocalLandValue - LocalPollution >= 94
    /\ call.pos > RZB
    /\ EnteredWith(call.trace, "DoResOut", -500)
    /\ Code(CenterAfter) < call.pos

C11_Expected(base) ==
    LET e1 == IF HasBit(CenterBefore, POWERBIT) THEN base ELSE base \div 2
        e2 == IF EnteredWith(call.trace, "FindPRoad", 0) THEN e1 \div 2 ELSE e1
    IN  IF e2 < 250 THEN e2 ELSE 250
C11_Cell == <<Shr(call.y, 2), Shr(call.x, 2)>>

\* C11: a police (fire) station visit at a tick that is a multiple of 16
\* stores min(e, 250) in the cell of PoliceMap (FireStMap) at the station's
\* coarse coordinate, whatever the cell held, and changes no other cell of
\* either grid.
C11_StationWritesEffect ==
    /\ (Visited /\ CityTime % 16 = 0 /\ call.pos = POLICESTATION) =>
          /\ PoliceMap = [pre.PoliceMap EXCEPT ![C11_Cell[1]][C11_Cell[2]] =
                                                     C11_Expected(PoliceEffect)]
          /\ FireStMap = pre.FireStMap
    /\ (Visited /\ CityTime % 16 = 0 /\ call.pos = FIRESTATION) =>
          /\ FireStMap = [pre.FireStMap EXCEPT ![C11_Cell[1]][C11_Cell[2]] =
                                                     C11_Expected(FireEffect)]
          /\ PoliceMap = pre.PoliceMap
\* A second visit, unpowered or without road, lowers the value the first
\* visit left, in a grid that has another cell.
C11_Witness ==
    /\ Visited /\ CityTime % 16 = 0 /\ call.pos = POLICESTATION
    /\ pre.PoliceMap[C11_Cell[1]][C11_Cell[2]] > 0
    /\ PoliceMap[C11_Cell[1]][C11_Cell[2]] < pre.PoliceMap[C11_Cell[1]][C11_Cell[2]]
    /\ PoliceMap[C11_Cell[1]][C11_Cell[2]] = C11_Expected(PoliceEffect)
    /\ Cardinality(DOMAIN PoliceMap[0]) > 1

\* The call entered handler h with first argument at least lo.
EnteredFrom(tr, h, lo) == \E i \in 1..Len(tr) : tr[i].h = h /\ tr[i].a >= lo
LocalPopDensity == PopDensity[Shr(call.y, 1)][Shr(call.x, 1)]

\* C12: when DoResIn is entered with a population of 40 or more, BuildHouse
\* is not called, and Map changes only by the stamp of a FREEZ placeholder
\* whose local population density is above 64.
C12_NoHouseFrom40 ==
    (Visited /\ EnteredFrom(call.trace, "DoResIn", 40)) =>
        /\ ~Entered(call.trace, "BuildHouse")
        /\ \/ MapUnchanged
           \/ /\ Code(CenterBefore) = FREEZ
              /\ LocalPopDensity > 64
              /\ Entered(call.trace, "ResPlop")
C12_Witness ==
    /\ Visited /\ EnteredFrom(call.trace, "DoResIn", 40)
    /\ Code(CenterBefore) = FREEZ
    /\ LocalPopDensity > 64
    /\ ~MapUnchanged
    /\ ~Entered(call.trace, "BuildHouse")

\* The credit C13 states for a hospital or church.
C13_Credit ==
    IF call.pos = HOSPITAL
    THEN (IF HasBit(CenterBefore, POWERBIT) THEN 30 ELSE 5)
    ELSE (IF HasBit(CenterBefore, POWERBIT) THEN 10 ELSE 2)

\* C13: a hospital or church visit at a tick that is a multiple of 4 adds
\* 30, 5, 10 or 2 to ResPop and at most 1 to IZPop (hospital) or RZPop
\* (church) and changes no other counter, census total or tile; at any
\* other tick it changes none of them.
C13_HospitalChurchCredit ==
    (Visited /\ call.pos \in {HOSPITAL, CHURCH}) =>
        /\ MapUnchanged
        /\ CZPop = pre.CZPop
        /\ ComPop = pre.ComPop /\ IndPop = pre.IndPop /\ NuclearPop = pre.NuclearPop
        /\ IF CityTime % 4 = 0
           THEN /\ ResPop = pre.ResPop + C13_Credit
                /\ IF call.pos = HOSPITAL
                   THEN IZPop - pre.IZPop \in {0, 1} /\ RZPop = pre.RZPop
                   ELSE RZPop - pre.RZPop \in {0, 1} /\ IZPop = pre.IZPop
           ELSE ResPop = pre.ResPop /\ IZPop = pre.IZPop /\ RZPop = pre.RZPop
\* An unpowered hospital at tick 4, with the draw adding to IZPop.
C13_Witness ==
    /\ Visited /\ call.pos = HOSPITAL
    /\ CityTime % 4 = 0 /\ CityTime % 8 # 0
    /\ ~HasBit(CenterBefore, POWERBIT)
    /\ ResPop = pre.ResPop + 5
    /\ IZPop = pre.IZPop + 1

\* The population C14 states for the tile code est is the estimate of: the
\* estimate, or 1 for a powered zone whose estimate is 0.
C14_Contribution(est) ==
    IF est = 0 /\ HasBit(CenterBefore, POWERBIT) THEN 1 ELSE est

\* C14: a residential, commercial or industrial visit adds to the census
\* total of its category the estimator's population for the tile code, 1
\* for a powered zone whose estimate is 0 and 0 for an unpowered one.
C14_CensusAddsPopulation ==
    /\ (Visited /\ IsResPos(call.pos)) =>
          ResPop = pre.ResPop + C14_Contribution(calcResPop(Uncached, call.pos).ret)
    /\ (Visited /\ IsComPos(call.pos)) =>
          ComPop = pre.ComPop + C14_Contribution(calcComPop(Uncached, call.pos).ret)
    /\ (Visited /\ IsIndPos(call.pos)) =>
          IndPop = pre.IndPop + C14_Contribution(calcIndPop(Uncached, call.pos).ret)
\* A powered commercial zone with estimate 0 counts 1.
C14_Witness ==
    /\ Visited /\ call.pos = COMCLR
    /\ HasBit(CenterBefore, POWERBIT)
    /\ calcComPop(Uncached, call.pos).ret = 0
    /\ ComPop = pre.ComPop + 1

\* C16: a residential zone center at the lowest tier (the placeholder FREEZ
\* or the first tier code RZB), visited on the decline path with
\* desirability below 30 and population 0, is made rubble when the 1-in-4
\* draw and then the 1-in-2 draw both pass.
C16_Declining ==
    /\ Visited
    /\ IsResPos(call.pos)
    /\ Code(CenterBefore) \in {FREEZ, RZB}
    /\ \E i \in DOMAIN call.trace :
          /\ call.trace[i].h = "DoResOut"
          /\ call.trace[i].a = 0
          /\ call.trace[i].b < 30
    /\ \E i \in DOMAIN call.trace :
          /\ call.trace[i].h = "RuinDraw"
          /\ call.trace[i].a = 0
          /\ call.trace[i].b = 0
C16_RuinAtLowestTier ==
    C16_Declining => Entered(call.trace, "SetRubbleTile")
\* What holds instead: no visit of these centers writes rubble.
C16_NoRuin ==
    (Visited /\ Code(CenterBefore) \in {FREEZ, RZB}) =>
        /\ ~Entered(call.trace, "SetRubbleTile")
        /\ Code(CenterAfter) \in {FREEZ, RZB} \cup {c \in RZB..(COMBASE - 1) : CMod(c - RZB, 9) = 0}

\* The call made MakeTraffic(kind) and it returned no success.
TrafficFailed(kind) ==
    \E i \in DOMAIN call.trace :
        /\ call.trace[i].h = "MakeTraffic"
        /\ call.trace[i].a = kind
        /\ call.trace[i].b <= 0

\* C17: a residential visit at a tick that is a multiple of 8 whose traffic
\* generation fails takes the decline path: it enters DoResOut and does not
\* enter DoResIn.
C17_TrafficFailureDeclines ==
    (Visited /\ IsResPos(call.pos) /\ CityTime % 8 = 0 /\ TrafficFailed(0)) =>
        /\ Entered(call.trace, "DoResOut")
        /\ ~Entered(call.trace, "DoResIn")
\* What holds instead: the result of MakeTraffic decides only whether the
\* running counter is credited; a powered center grows or declines by land
\* value minus pollution alone.
C17_TrafficIgnored ==
    (Visited /\ IsResPos(call.pos) /\ CityTime % 8 = 0
        /\ HasBit(CenterBefore, POWERBIT) /\ Entered(call.trace, "MakeTraffic")) =>
        /\ Entered(call.trace, "DoResIn") <=> (LocalLandValue - LocalPollution) >= 94
        /\ Entered(call.trace, "DoResOut") <=> (LocalLandValue - LocalPollution) < 94

\* DoResIn stamped a center that is not the placeholder through
\* ResPlop with density -1, and the stamp was written.
C18_Stamped ==
    /\ Visited
    /\ Code(CenterBefore) # FREEZ
    /\ Entered(call.trace, "DoResIn")
    /\ \E i \in DOMAIN call.trace :
          call.trace[i].h = "ResPlop" /\ call.trace[i].a = -1
    /\ \E i \in DOMAIN call.trace :
          call.trace[i].h = "ZonePlop" /\ call.trace[i].a = Code(CenterAfter)
    /\ Code(CenterAfter) # Code(CenterBefore)

\* C18: the center code DoResIn stamps with density -1 has density level
\* ((code - RZB) / 9) mod 4 = 0, the level calcResPop reads.
C18_NegativeDensityLowestTier ==
    C18_Stamped => CMod(CDiv(Code(CenterAfter) - RZB, 9), 4) = 0
\* What holds instead: the stamped code has density level 3, the highest,
\* and calcResPop gives it the population 40.
C18_NegativeDensityLevel3 ==
    C18_Stamped =>
        /\ CMod(CDiv(Code(CenterAfter) - RZB, 9), 4) = 3
        /\ calcResPop(Uncached, Code(CenterAfter)).ret = 40

\* The cells of Map the call changed.
ChangedCells == {c \in Cols \X Rows : Map[c[2]][c[1]] # pre.Map[c[2]][c[1]]}
\* The 8 neighbor cells of the center the call visited.
NeighborCells ==
    {c \in Cols \X Rows :
        /\ c # <<call.x, call.y>>
        /\ c[1] - call.x \in -1..1
        /\ c[2] - call.y \in -1..1}
\* DoResIn called BuildHouse on a placeholder with a population below 8,
\* and the search found an eligible lot among the neighbors.
C19_LotFound ==
    /\ Visited
    /\ Code(CenterBefore) = FREEZ
    /\ \E i \in DOMAIN call.trace :
          call.trace[i].h = "DoResIn" /\ call.trace[i].a < 8
    /\ \E i \in DOMAIN call.trace :
          call.trace[i].h = "BuildHouse" /\ call.trace[i].a > 0
    /\ \E c \in NeighborCells : EvalLot(pre, c[1], c[2]) > 0

\* C19: when DoResIn runs on a placeholder with a population below 8 and a
\* neighbor cell is an eligible lot, exactly one neighbor cell is changed,
\* and it is an eligible lot.
C19_BuildsOneHouse ==
    C19_LotFound =>
        \E c \in NeighborCells :
            /\ ChangedCells = {c}
            /\ EvalLot(pre, c[1], c[2]) > 0
\* What holds instead: BuildHouse leaves Map as it was.
C19_BuildsNothing ==
    (Visited /\ Entered(call.trace, "BuildHouse")) => ChangedCells = {}

\* The base of the category DoZone dispatches pos to.
CategoryBase(pos) == IF IsResPos(pos) THEN RZB ELSE IF IsComPos(pos) THEN CZB ELSE IZB
\* The codes the call passed to ZonePlop.
PlopCodes == {call.trace[i].a : i \in {j \in DOMAIN call.trace : call.trace[j].h = "ZonePlop"}}

\* C20: every center code a growth handler passes to ZonePlop satisfies
\* (code - CategoryBase) mod 9 = 0, with CategoryBase RZB, CZB or IZB by the
\* category of the zone visited.
C20_PlopCodesAligned ==
    (Visited /\ IsZonePos(call.pos)) =>
        \A code \in PlopCodes : CMod(code - CategoryBase(call.pos), 9) = 0
\* What holds instead: residential codes are aligned on RZB; commercial and
\* industrial codes are 4 below an aligned code, and ZonePlop writes them
\* to a bulldozable center.
C20_PlopCodesByCategory ==
    (Visited /\ IsZonePos(call.pos)) =>
        \A code \in PlopCodes :
            /\ IsResPos(call.pos) => CMod(code - RZB, 9) = 0
            /\ ~IsResPos(call.pos) =>
                  /\ CMod(code + 4 - CategoryBase(call.pos), 9) = 0
                  /\ HasBit(CenterBefore, BULLBIT) => Code(CenterAfter) = code

\* The code is center-aligned for the category DoZone dispatches pos to.
Aligned(code, pos) == CMod(code - CategoryBase(pos), 9) = 0
\* The visit entered a decline handler and the center's tile changed.
C21_Declined ==
    /\ Visited
    /\ IsZonePos(call.pos)
    /\ \/ Entered(call.trace, "DoResOut")
       \/ Entered(call.trace, "DoComOut")
       \/ Entered(call.trace, "DoIndOut")
    /\ CenterAfter # CenterBefore

\* C21: a decline handler changes a tile only when it is a zone center
\* with a center-aligned code, and the code a commercial or industrial
\* decline step leaves is center-aligned.
C21_DeclineKeepsAlignment ==
    C21_Declined =>
        /\ HasBit(CenterBefore, ZONEBIT)
        /\ Aligned(Code(CenterBefore), call.pos)
        /\ ~IsResPos(call.pos) => Aligned(Code(CenterAfter), call.pos)
\* What holds instead: a commercial decline step lowers the code by 1
\* whatever it is above COMBASE, so it never leaves an aligned code
\* aligned; a residential step starts and ends on a code aligned on RZB.
C21_DeclineSteps ==
    C21_Declined =>
        /\ IsComPos(call.pos) =>
              /\ Code(CenterAfter) = Code(CenterBefore) - 1
              /\ Code(CenterBefore) > COMBASE
              /\ ~(Aligned(Code(CenterBefore), call.pos) /\ Aligned(Code(CenterAfter), call.pos))
        /\ IsResPos(call.pos) =>
              /\ Aligned(Code(CenterBefore), call.pos)
              /\ Aligned(Code(CenterAfter), call.pos)
        /\ ~IsIndPos(call.pos)

\* The land-value-derived cap DoComIn compares the population with.
C24_Cap == Shr(LocalLandValue, 5)
\* The populations DoComIn was entered with.
C24_Pops == {call.trace[i].a : i \in {j \in DOMAIN call.trace : call.trace[j].h = "DoComIn"}}

\* C24: DoComIn stamps a commercial zone, at density = population, only
\* when the population is strictly below the cap (land value >> 5) and
\* strictly below 6; otherwise Map is unchanged.
C24_StampsBelowCap ==
    (Visited /\ Entered(call.trace, "DoComIn")) =>
        \A pop \in C24_Pops :
            IF Entered(call.trace, "ComPlop")
            THEN pop < C24_Cap /\ pop < 6 /\ EnteredWith(call.trace, "ComPlop", (pop * 9) + CZB - 4)
            ELSE MapUnchanged
\* What holds instead: DoComIn stamps exactly when the population is at
\* most the cap and below 6.
C24_StampsUpToCap ==
    (Visited /\ Entered(call.trace, "DoComIn")) =>
        \A pop \in C24_Pops :
            /\ Entered(call.trace, "ComPlop") <=> (pop <= C24_Cap /\ pop < 6)
            /\ Entered(call.trace, "ComPlop") =>
                  \E i \in DOMAIN call.trace :
                      /\ call.trace[i].h = "ComPlop"
                      /\ call.trace[i].a = pop
                      /\ call.trace[i].b = (pop * 9) + CZB - 4
            /\ ~Entered(call.trace, "ComPlop") => MapUnchanged

\* C25: no visit of an industrial zone center enters DoIndIn or DoIndOut,
\* and none changes the center's code or any other cell of Map, whatever
\* the tick, land value, pollution, power state and traffic outcome.
C25_IndustrialNeverChanges ==
    (Visited /\ IsIndPos(call.pos)) =>
        /\ ~Entered(call.trace, "DoIndIn")
        /\ ~Entered(call.trace, "DoIndOut")
        /\ Code(CenterAfter) = Code(CenterBefore)
        /\ MapUnchanged
\* A second visit of a developed industrial center, powered, at a tick that
\* is a multiple of 8, whose traffic generation failed.
C25_Witness ==
    /\ Visited /\ IsIndPos(call.pos)
    /\ visits = 2
    /\ CityTime % 8 = 0
    /\ HasBit(CenterBefore, POWERBIT)
    /\ Code(CenterBefore) = IZB - 4
    /\ TrafficFailed(2)

\* C26: a residential visit that enters DoResOut leaves the center's code
\* as it was or lowers it by exactly 9 to a code that is at least RZB,
\* inside [RESBASE, COMBASE) and aligned on RZB; a center at RZB keeps its
\* code, so a center at or above RZB stays at or above RZB.
C26_Decline == Visited /\ IsResPos(call.pos) /\ Entered(call.trace, "DoResOut")
C26_StepsOfNine ==
    C26_Decline =>
        /\ \/ Code(CenterAfter) = Code(CenterBefore)
           \/ /\ Code(CenterAfter) = Code(CenterBefore) - 9
              /\ Code(CenterAfter) >= RZB
              /\ Code(CenterAfter) >= RESBASE /\ Code(CenterAfter) < COMBASE
              /\ CMod(Code(CenterAfter) - RZB, 9) = 0
        /\ Flags(CenterAfter) = Flags(CenterBefore)
        /\ Code(CenterBefore) = RZB => Code(CenterAfter) = RZB
        /\ Code(CenterBefore) >= RZB => Code(CenterAfter) >= RZB
\* The last step down: a center at RZB + 9 declines to RZB.
C26_Witness ==
    /\ C26_Decline
    /\ Code(CenterBefore) = RZB + 9
    /\ Code(CenterAfter) = RZB

\* The land value tiers DoResIn was entered with.
C27_Tiers == {call.trace[i].b : i \in {j \in DOMAIN call.trace : call.trace[j].h = "DoResIn"}}

\* C27: whenever a residential visit enters DoResIn, the land value tier
\* passed is 2 or 3 and land value minus pollution is at least 94; a
\* residential center whose tier is 0 or 1 does not enter DoResIn.
C27_GrowthTierAtLeast2 ==
    (Visited /\ IsResPos(call.pos)) =>
        /\ C27_Tiers \subseteq {2, 3}
        /\ Entered(call.trace, "DoResIn") => (LocalLandValue - LocalPollution) >= 94
        /\ (LocalLandValue - LocalPollution) < 80 => ~Entered(call.trace, "DoResIn")
\* Growth at the threshold: land value minus pollution exactly 94, tier 2.
C27_Witness ==
    /\ Visited /\ IsResPos(call.pos)
    /\ LocalLandValue - LocalPollution = 94
    /\ C27_Tiers = {2}

\* The visit stamped a residential zone from DoResIn.
C28_Stamped ==
    /\ Visited /\ IsResPos(call.pos)
    /\ Entered(call.trace, "DoResIn")
    /\ EnteredWith(call.trace, "ZonePlop", 1)

\* C28: no cell a residential stamp from DoResIn writes holds the code
\* HOSPITAL or CHURCH, and every such cell holds a code in
\* [RESBASE, COMBASE).
C28_NoHospitalChurchStamped ==
    C28_Stamped =>
        \A c \in ChangedCells \cup {<<call.x, call.y>>} :
            /\ Code(Map[c[2]][c[1]]) \notin {HOSPITAL, CHURCH}
            /\ Code(Map[c[2]][c[1]]) >= RESBASE
            /\ Code(Map[c[2]][c[1]]) < COMBASE
\* What holds instead: the codes are in [RESBASE, COMBASE) and never
\* CHURCH; the center is never HOSPITAL; a surrounding cell holds HOSPITAL
\* exactly when the center is stamped HOSPITALBASE and the cell draws 1.
C28_HospitalAroundTopTier ==
    C28_Stamped =>
        /\ Code(CenterAfter) \notin {HOSPITAL, CHURCH}
        /\ \A c \in ChangedCells \cup {<<call.x, call.y>>} :
              /\ Code(Map[c[2]][c[1]]) # CHURCH
              /\ Code(Map[c[2]][c[1]]) >= RESBASE
              /\ Code(Map[c[2]][c[1]]) < COMBASE
              /\ Code(Map[c[2]][c[1]]) = HOSPITAL =>
                    /\ Code(CenterAfter) = HOSPITALBASE
                    /\ ~HasBit(Map[c[2]][c[1]], ZONEBIT)

(***************************************************************************)
(* Properties of single calls (SpecCall).                                  *)
(***************************************************************************)

\* C6: ZonePlop called with a coordinate outside the grid, on a center
\* whose BULLBIT is clear, or with a base outside RESBASE..LASTZONE returns
\* 0 and leaves every cell of Map unchanged.
C6_PlopFailsClean ==
    (/\ call.op = "ZonePlop"
     /\ \/ ~InGrid
        \/ ~HasBit(pre.Map[call.y][call.x], BULLBIT)
        \/ call.pos < RESBASE
        \/ call.pos > LASTZONE) =>
        call.ret = 0 /\ MapUnchanged
\* The center is not bulldozable and has a neighbour a stamp would write.
C6_Witness ==
    /\ call.op = "ZonePlop"
    /\ InGrid
    /\ ~HasBit(pre.Map[call.y][call.x], BULLBIT)
    /\ PlopDraws(pre.Map, call.x, call.y) # {}
    /\ call.pos >= RESBASE /\ call.pos <= LASTZONE
    /\ call.ret = 0 /\ MapUnchanged

\* C7: DoZone called on a tile whose ZONEBIT is clear changes nothing: Map,
\* RZPop, CZPop, IZPop, ResPop, ComPop, IndPop, NuclearPop, PoliceMap and
\* FireStMap are as before, and so is the position SMapX, SMapY, for every
\* pos and every tick.
C7_NonCenterNoOp ==
    (call.op = "DoZone" /\ ~HasBit(pre.Map[call.y][call.x], ZONEBIT)) =>
        /\ MapUnchanged
        /\ RZPop = pre.RZPop /\ CZPop = pre.CZPop /\ IZPop = pre.IZPop
        /\ ResPop = pre.ResPop /\ ComPop = pre.ComPop /\ IndPop = pre.IndPop
        /\ NuclearPop = pre.NuclearPop
        /\ PoliceMap = pre.PoliceMap /\ FireStMap = pre.FireStMap
        /\ SMapX = pre.SMapX /\ SMapY = pre.SMapY
\* A residential pos at a tick that is a multiple of 8, on a bulldozable
\* tile that is no zone center and not the tile of the previous position.
C7_Witness ==
    /\ call.op = "DoZone"
    /\ ~HasBit(pre.Map[call.y][call.x], ZONEBIT)
    /\ HasBit(pre.Map[call.y][call.x], BULLBIT)
    /\ call.pos = RZB /\ CityTime % 8 = 0
    /\ <<call.x, call.y>> # <<pre.SMapX, pre.SMapY>>
    /\ MapUnchanged /\ ResPop = pre.ResPop /\ SMapX = pre.SMapX

\* The decoding of a residential center code: the combined index DoResOut
\* computes, its density as calcResPop takes it and its value tier.
ResCombined(code) == CDiv(code - RZB, 9)
ResDensity(code) == CMod(ResCombined(code), 4)
ResValueTier(code) == CDiv(ResCombined(code), 4)
\* ResPlop was called with density den and value tier value and passed the
\* code it encoded to ZonePlop.
ResPlopAccepted(den, value) ==
    /\ call.op = "ResPlop"
    /\ Len(call.trace) >= 2
    /\ call.trace[1] = Ev("ResPlop", den, value)
    /\ call.trace[2].h = "ZonePlop"
ResPlopCode == call.trace[2].a

\* C10 as stated: every pair of a value tier in 0..3 and a density in -4..4
\* whose code ResPlop accepts decodes to the same pair.
C10_RoundTrip ==
    \A value \in 0..3, den \in -4..4 :
        ResPlopAccepted(den, value) =>
            ResValueTier(ResPlopCode) = value /\ ResDensity(ResPlopCode) = den

\* C10, amended: the round trip holds for the densities 0..3.
C10_RoundTripDensity0To3 ==
    \A value \in 0..3, den \in 0..3 :
        ResPlopAccepted(den, value) =>
            ResValueTier(ResPlopCode) = value /\ ResDensity(ResPlopCode) = den
C10_Witness ==
    /\ ResPlopAccepted(3, 2)
    /\ call.ret = 1
    /\ Code(Map[call.y][call.x]) = ResPlopCode
    /\ ResValueTier(ResPlopCode) = 2 /\ ResDensity(ResPlopCode) = 3

\* C22: a successful ZonePlop at (x, y) changes no cell outside the 3x3
\* block centered on (x, y); a neighbor with a code in [ROADS, LASTRAIL] or
\* with BULLBIT clear is unchanged; a neighbor that is changed holds the
\* code base + BSIZE or base + BSIZE + 1; the center holds base.
C22_Block ==
    {c \in Cols \X Rows : c[1] - call.x \in -1..1 /\ c[2] - call.y \in -1..1}
C22_Skipped(c) ==
    \/ (Code(pre.Map[c[2]][c[1]]) >= ROADS /\ Code(pre.Map[c[2]][c[1]]) <= LASTRAIL)
    \/ ~HasBit(pre.Map[c[2]][c[1]], BULLBIT)
C22_StampStaysInBlock ==
    (call.op = "ZonePlop" /\ call.ret = 1) =>
        /\ ChangedCells \subseteq C22_Block
        /\ Code(CenterAfter) = call.pos
        /\ \A c \in C22_Block \ {<<call.x, call.y>>} :
              /\ C22_Skipped(c) => Map[c[2]][c[1]] = pre.Map[c[2]][c[1]]
              /\ c \in ChangedCells =>
                    Code(Map[c[2]][c[1]]) \in {call.pos + BSIZE, call.pos + BSIZE + 1}
\* A stamp that succeeds while it skips a road and writes another neighbor,
\* on a map with cells outside the block.
C22_Witness ==
    /\ call.op = "ZonePlop" /\ call.ret = 1
    /\ \E c \in C22_Block \ {<<call.x, call.y>>} :
          /\ Code(pre.Map[c[2]][c[1]]) >= ROADS
          /\ Code(pre.Map[c[2]][c[1]]) <= LASTRAIL
          /\ HasBit(pre.Map[c[2]][c[1]], BULLBIT)
    /\ \E c \in C22_Block \ {<<call.x, call.y>>} : c \in ChangedCells
    /\ (Cols \X Rows) \ C22_Block # {}

(***************************************************************************)
(* Properties of the land value tier and the evaluations (SpecVal).        *)
(***************************************************************************)
\* C15: GetCRVal returns 0 when land value minus pollution is below 30, 1
\* from 30 to 79, 2 from 80 to 149 and 3 from 150 up, so the tier never
\* decreases as land value minus pollution increases.
C15_TierByThresholds ==
    call.op = "GetCRVal" =>
        LET d == LocalLandValue - LocalPollution
        IN  /\ call.ret \in 0..3
            /\ call.ret >= 1 <=> d >= 30
            /\ call.ret >= 2 <=> d >= 80
            /\ call.ret >= 3 <=> d >= 150
\* Pollution above the land value: the difference is negative, the tier 0.
C15_Witness ==
    /\ call.op = "GetCRVal"
    /\ LocalLandValue - LocalPollution < 0
    /\ call.ret = 0

(***************************************************************************)
(* Properties of the population estimators (SpecPop).                      *)
(***************************************************************************)
PopIndex == call.pos - RESBASE

\* C8: in any interleaving of calls, every estimator returns what its
\* uncached computation returns for the code, within its clamp: 1000 for
\* calcResPop, 100 for calcComPop, 50 for calcIndPop.
C8_EstimatorsPure ==
    /\ call.op = "calcResPop" =>
          call.ret = calcResPop(Uncached, call.pos).ret /\ call.ret <= 1000
    /\ call.op = "calcComPop" =>
          call.ret = calcComPop(Uncached, call.pos).ret /\ call.ret <= 100
    /\ call.op = "calcIndPop" =>
          call.ret = calcIndPop(Uncached, call.pos).ret /\ call.ret <= 50
\* calcComPop answers from its cache for a code the other two estimators
\* have cached with other values.
C8_Witness ==
    /\ call.op = "calcComPop"
    /\ pre.cacheInitialized # 0
    /\ PopIndex \in DOMAIN pre.comPopCache
    /\ PopIndex \in DOMAIN pre.resPopCache
    /\ PopIndex \in DOMAIN pre.indPopCache
    /\ pre.resPopCache[PopIndex] # call.ret
    /\ pre.indPopCache[PopIndex] # call.ret
    /\ call.ret = pre.comPopCache[PopIndex]

\* C9: each estimator returns 0 for every code outside the span of its
\* category: RESBASE..COMBASE-1, COMBASE..INDBASE-1, INDBASE..PORTBASE-1.
C9_ZeroOutsideSpan ==
    /\ (call.op = "calcResPop" /\ ~(call.pos >= RESBASE /\ call.pos < COMBASE)) =>
          call.ret = 0
    /\ (call.op = "calcComPop" /\ ~(call.pos >= COMBASE /\ call.pos < INDBASE)) =>
          call.ret = 0
    /\ (call.op = "calcIndPop" /\ ~(call.pos >= INDBASE /\ call.pos < PORTBASE)) =>
          call.ret = 0

\* The cache accesses the call made.
CacheAccesses ==
    {i \in DOMAIN call.trace :
        call.trace[i].h \in {"resPopCache", "comPopCache", "indPopCache"}}
CacheIndices == 0..(POP_CACHE_SIZE - 1)
CachesUnchanged ==
    /\ resPopCache = pre.resPopCache
    /\ comPopCache = pre.comPopCache
    /\ indPopCache = pre.indPopCache

\* C23: every read and write of a cache by an estimator is at an index in
\* 0..POP_CACHE_SIZE-1; for a code whose index zone - RESBASE is outside
\* that range the estimator touches no cache and returns its uncached
\* result.
C23_CacheInBounds ==
    /\ \A i \in CacheAccesses : call.trace[i].a \in CacheIndices
    /\ DOMAIN resPopCache \subseteq CacheIndices
    /\ DOMAIN comPopCache \subseteq CacheIndices
    /\ DOMAIN indPopCache \subseteq CacheIndices
    /\ (call.op \in {"calcResPop", "calcComPop", "calcIndPop"} /\ PopIndex \notin CacheIndices) =>
          /\ CacheAccesses = {}
          /\ CachesUnchanged
          /\ call.op = "calcResPop" => call.ret = calcResPop(Uncached, call.pos).ret
          /\ call.op = "calcComPop" => call.ret = calcComPop(Uncached, call.pos).ret
          /\ call.op = "calcIndPop" => call.ret = calcIndPop(Uncached, call.pos).ret
\* calcResPop on a code inside the accepted range whose index is beyond the
\* cache, with the caches in use: the formula result, nothing cached.
C23_Witness ==
    /\ call.op = "calcResPop"
    /\ call.pos >= RESBASE /\ call.pos <= LASTZONE
    /\ PopIndex >= POP_CACHE_SIZE
    /\ pre.cacheInitialized # 0
    /\ call.ret = 24
    /\ CachesUnchanged

============================================================================
